---- MODULE Spec2Model ----
(***************************************************************************)
(* A model of the skill-learning scripts of agent-mobile:                  *)
(*   learn.py     session assembly, n-gram mining, scoring, candidates     *)
(*   generate.py  approval (generate_skill) and rejection of candidates    *)
(*   improve.py   improvement proposals and their application              *)
(* Strings whose characters matter (tool names, joined patterns, skill     *)
(* names) are sequences of one-character strings.                          *)
(***************************************************************************)
EXTENDS Integers, Sequences, FiniteSets, TLC

VARIABLES
    tool_log,      \* tool-sequences.jsonl: the in-window records, in file order
    config,        \* config.json, "learning" block
    pc,            \* position of the run being modelled
    repeated,      \* what find_repeated_subsequences returned: <<ngram, count>> pairs
    score_in,      \* the arguments of a calculate_candidate_score call
    score_out,     \* its result, in hundredths
    user_prompts,  \* user-prompts.jsonl: the in-window prompts, in file order
    skills,        \* SKILLS_DIR: skill name -> the artifact directory of that name
    candidates,    \* CANDIDATES_DIR: candidate.json of every candidate, by candidate_id
    runs,          \* history: what each run_learning call returned
    applied,       \* history: the apply_improvement calls and their outcomes
    feedback,      \* feedback.jsonl: the in-window records, in file order
    commands,      \* history: the command lines run and what they did
    log_file,      \* a .jsonl log as a reader sees it: the pieces written so far
    patterns,      \* load_patterns: the records appended to its result so far
    reader,        \* load_patterns: how many pieces it consumed, and where it stands
    hook           \* the part of the hook's current write not yet visible to readers

scoreVars == <<score_in, score_out>>
commandVars == <<feedback, commands>>
loadVars == <<log_file, patterns, reader, hook>>
learnVars == <<user_prompts, skills, candidates, runs, applied, commandVars, loadVars>>
vars == <<tool_log, config, pc, repeated, score_in, score_out,
          user_prompts, skills, candidates, runs, applied, feedback, commands,
          log_file, patterns, reader, hook>>

(***************************************************************************)
(* Bounds of the model.                                                    *)
(***************************************************************************)
MaxLog == 5
MaxSeqLen == 5          \* longest sequence scored
MaxFrequency == 5       \* largest frequency scored
MaxMinFrequency == 2    \* largest min_frequency configured
MaxComplexity == 4      \* largest max_complexity configured when scoring
MaxSessions == 4        \* sessions in the log of the learning model
MaxRuns == 2            \* run_learning calls in one behaviour
MaxReviewed == 1        \* candidates approved or rejected in one behaviour
MaxApplies == 2         \* apply_improvement calls in one behaviour
MaxCommands == 1        \* command lines run in one behaviour
MaxNamedSessions == 3   \* sessions of a log with names that contain one another
MaxLines == 3           \* lines of a log that is read
MaxRecords == 3         \* records in a log that grows while it is read

(***************************************************************************)
(* Text.                                                                   *)
(***************************************************************************)
RECURSIVE Join(_, _)
\* sep.join(parts)
Join(parts, sep) ==
    IF parts = <<>> THEN <<>>
    ELSE IF Len(parts) = 1 THEN parts[1]
    ELSE parts[1] \o sep \o Join(Tail(parts), sep)

\* Python's  s in t  on strings
StrIn(s, t) ==
    \E i \in 0..(Len(t) - Len(s)) : SubSeq(t, i + 1, i + Len(s)) = s

\* contiguous sub-tuple, element by element
IsSubTuple(short, long) ==
    \E i \in 0..(Len(long) - Len(short)) : SubSeq(long, i + 1, i + Len(short)) = short

RECURSIVE Flatten(_)
Flatten(ss) == IF ss = <<>> THEN <<>> ELSE Head(ss) \o Flatten(Tail(ss))

RECURSIVE Dedup(_)
\* the keys of a dict in insertion order: first occurrences
Dedup(s) ==
    IF s = <<>> THEN <<>>
    ELSE LET r == Dedup(SubSeq(s, 1, Len(s) - 1))
             x == s[Len(s)]
         IN  IF \E i \in 1..Len(r) : r[i] = x THEN r ELSE Append(r, x)

Occurrences(s, x) == Cardinality({i \in 1..Len(s) : s[i] = x})

Range(s) == {s[i] : i \in 1..Len(s)}

(***************************************************************************)
(* Tool names and sessions of the mining model.                            *)
(***************************************************************************)
Bash == <<"B", "a", "s", "h">>
Read == <<"R", "e", "a", "d">>
NoTool == <<>>                    \* "tool": "" (falsy)
Arrow == <<"-", ">">>             \* the separator of learn.py:121

MinerTools == {Bash, Read, NoTool}
MinerSessions == {"s1", "s2"}
MISSING == "MISSING"              \* the key is absent from the record
NoHint == <<>>                    \* no domain_hint / domain None (falsy)
Git == <<"g", "i", "t">>

(***************************************************************************)
(* learn.py: extract_tool_sequences                                        *)
(***************************************************************************)
SessionOf(p) == IF p.session_id = MISSING THEN "unknown" ELSE p.session_id

\* the tools of one session, in log order; records with a falsy tool are skipped
ToolsOfSession(log, sid) ==
    LET mine == SelectSeq(log, LAMBDA p : SessionOf(p) = sid /\ p.tool # NoTool)
    IN  [i \in 1..Len(mine) |-> mine[i].tool]

\* session ids in dict insertion order
SessionOrder(log) ==
    LET named == SelectSeq(log, LAMBDA p : p.tool # NoTool)
    IN  Dedup([i \in 1..Len(named) |-> SessionOf(named[i])])

MinSessionLen == 3

\* the assembler without its length filter
extract_every_session(log) ==
    LET order == SessionOrder(log)
    IN  [i \in 1..Len(order) |-> ToolsOfSession(log, order[i])]

extract_tool_sequences(log) ==
    LET order == SessionOrder(log)
        all == [i \in 1..Len(order) |-> ToolsOfSession(log, order[i])]
    IN  SelectSeq(all, LAMBDA tools : Len(tools) >= MinSessionLen)

(***************************************************************************)
(* learn.py: find_repeated_subsequences                                    *)
(***************************************************************************)
Min2(a, b) == IF a <= b THEN a ELSE b

\* the window loop without the max_len cap: range(min_len, len(seq) + 1)
NgramsUncapped(seq, min_len, max_len) ==
    LET ns == [k \in 1..(Len(seq) + 1 - min_len) |-> min_len + k - 1]
    IN  Flatten([k \in 1..Len(ns) |->
                    [i \in 1..(Len(seq) - ns[k] + 1) |-> SubSeq(seq, i, i + ns[k] - 1)]])

\* every n-gram occurrence of one sequence, in the order the loops visit them
NgramsOf(seq, min_len, max_len) ==
    LET ns == [k \in 1..(Min2(max_len + 1, Len(seq) + 1) - min_len) |-> min_len + k - 1]
    IN  Flatten([k \in 1..Len(ns) |->
                    [i \in 1..(Len(seq) - ns[k] + 1) |-> SubSeq(seq, i, i + ns[k] - 1)]])

AllNgrams(sequences, min_len, max_len) ==
    Flatten([s \in 1..Len(sequences) |-> NgramsOf(sequences[s], min_len, max_len)])

\* sorted(keys, key=len, reverse=True): stable, longest first
RECURSIVE SortByLenDesc(_, _)
SortByLenDesc(keys, n) ==
    IF n < 0 THEN <<>>
    ELSE SelectSeq(keys, LAMBDA k : Len(k) = n) \o SortByLenDesc(keys, n - 1)

MaxLen(keys) ==
    IF keys = <<>> THEN 0
    ELSE CHOOSE n \in {Len(keys[i]) : i \in 1..Len(keys)} :
            \A i \in 1..Len(keys) : Len(keys[i]) <= n

\* the containment test with the length comparison the wrong way round
is_subsequence_len_flipped(ngram, final) ==
    \E j \in 1..Len(final) :
        /\ Len(ngram) > Len(final[j])
        /\ StrIn(Join(ngram, Arrow), Join(final[j], Arrow))

\* learn.py:117-125
is_subsequence(ngram, final) ==
    \E j \in 1..Len(final) :
        /\ Len(ngram) < Len(final[j])
        /\ StrIn(Join(ngram, Arrow), Join(final[j], Arrow))

RECURSIVE Reduce(_, _)
\* learn.py:115-128, the keys of `final` after the first k sorted n-grams
Reduce(sorted, k) ==
    IF k = 0 THEN <<>>
    ELSE LET final == Reduce(sorted, k - 1)
         IN  IF is_subsequence(sorted[k], final) THEN final
             ELSE Append(final, sorted[k])

\* learn.py:106
CountNgram(occ, ngram) == Occurrences(occ, ngram)

find_repeated_subsequences(sequences, min_len, max_len) ==
    LET occ == AllNgrams(sequences, min_len, max_len)
        keys == Dedup(occ)
        rep == SelectSeq(keys, LAMBDA k : CountNgram(occ, k) >= 2)
        sorted == SortByLenDesc(rep, MaxLen(rep))
        final == Reduce(sorted, Len(sorted))
    IN  [i \in 1..Len(final) |-> <<final[i], CountNgram(occ, final[i])>>]

(***************************************************************************)
(* The mining model: the hook appends records, then one mining pass runs.  *)
(***************************************************************************)
ToolRecord(sid, tool, hint) == [session_id |-> sid, tool |-> tool, hint |-> hint]

\* no log is being read
NoPiece == [part |-> "none"]
LoadIdle ==
    /\ log_file = <<>>
    /\ patterns = <<>>
    /\ reader = [pos |-> 0, status |-> "idle"]
    /\ hook = NoPiece

LearnIdle ==
    /\ user_prompts = <<>>
    /\ skills = <<>>
    /\ candidates = <<>>
    /\ runs = <<>>
    /\ applied = <<>>
    /\ feedback = <<>>
    /\ commands = <<>>
    /\ LoadIdle

NoScore == [called |-> FALSE]

ScoreIdle == score_in = NoScore /\ score_out = 0

InitMiner ==
    /\ tool_log = <<>>
    /\ config \in {     \* the (min_complexity, max_complexity) pairs mined under
           [min_frequency |-> 2, min_complexity |-> 3, max_complexity |-> 7,
            score_threshold |-> 60],
           [min_frequency |-> 2, min_complexity |-> 2, max_complexity |-> 3,
            score_threshold |-> 60] }
    /\ pc = "collect"
    /\ repeated = <<>>
    /\ ScoreIdle
    /\ LearnIdle

\* hooks/post_tool_use.py main: one record appended to tool-sequences.jsonl
PostToolUse(sid, tool) ==
    /\ pc = "collect"
    /\ Len(tool_log) < MaxLog
    /\ tool_log' = Append(tool_log, ToolRecord(sid, tool, NoHint))
    /\ UNCHANGED <<config, pc, repeated, scoreVars, learnVars>>

\* learn.py:388-393
MinePatterns ==
    /\ pc = "collect"
    /\ repeated' = find_repeated_subsequences(extract_tool_sequences(tool_log),
                        config.min_complexity, config.max_complexity)
    /\ pc' = "mined"
    /\ UNCHANGED <<tool_log, config, scoreVars, learnVars>>

NextMiner ==
    \/ \E sid \in MinerSessions, tool \in MinerTools : PostToolUse(sid, tool)
    \/ MinePatterns

SpecMiner == InitMiner /\ [][NextMiner]_vars

(***************************************************************************)
(* The mining pass on logs whose tool names contain one another as text:   *)
(* "Edit" ends "NotebookEdit".  Each session ran one of a few sequences.   *)
(***************************************************************************)
NotebookEdit == <<"N", "o", "t", "e", "b", "o", "o", "k", "E", "d", "i", "t">>

InitNames ==
    /\ tool_log \in
         LET Ed == <<"E", "d", "i", "t">>
             shapes == { <<NotebookEdit, Bash, Read>>, <<Ed, Bash, Ed, Bash>>,
                         <<Ed, Bash, Read>>, <<Bash, Read, Bash>> }
             ids == <<"s1", "s2", "s3", "s4">>
         IN  {Flatten([k \in DOMAIN ran |-> [i \in 1..Len(ran[k]) |->
                                          ToolRecord(ids[k], ran[k][i], NoHint)]]) :
                 ran \in UNION {[1..n -> shapes] : n \in 0..MaxNamedSessions}}
    /\ config = [min_frequency |-> 2, min_complexity |-> 2, max_complexity |-> 7,
                 score_threshold |-> 60]
    /\ pc = "collect"
    /\ repeated = <<>>
    /\ ScoreIdle
    /\ LearnIdle

SpecNames == InitNames /\ [][MinePatterns]_vars


(***************************************************************************)
(* The mining pass on logs whose records are not in the order of their     *)
(* timestamps: two sessions ran the same four tools at times 1, 2, 3, 4    *)
(* (or, with ties, 1, 1, 2, 2) and the records of each session lie in the  *)
(* log in any order.                                                       *)
(***************************************************************************)
InitOrder ==
    /\ \E ties \in BOOLEAN :
         LET events == <<Bash, Read, NotebookEdit, Bash>>
             orders == {p \in [DOMAIN events -> DOMAIN events] : Range(p) = DOMAIN events}
             Event(sid, i) ==
                 ToolRecord(sid, events[i], NoHint)
                     @@ [timestamp |-> IF ties THEN (i + 1) \div 2 ELSE i]
         IN  \E p1, p2 \in orders :
                 tool_log = [k \in DOMAIN events |-> Event("s1", p1[k])]
                                \o [k \in DOMAIN events |-> Event("s2", p2[k])]
    /\ config = [min_frequency |-> 2, min_complexity |-> 3, max_complexity |-> 7,
                 score_threshold |-> 60]
    /\ pc = "collect"
    /\ repeated = <<>>
    /\ ScoreIdle
    /\ LearnIdle

SpecOrder == InitOrder /\ [][MinePatterns]_vars

(***************************************************************************)
(* learn.py: calculate_candidate_score, in exact arithmetic.  The four     *)
(* sub-scores are fractions over the common denominator                    *)
(* 80 * min_frequency * (min_complexity + max_complexity); the result is   *)
(* in hundredths.  round(x, 2) rounds the binary float: when the exact sum *)
(* lies half way between two hundredths the float's rounding error decides *)
(* the direction, which half_up stands for.                                *)
(***************************************************************************)
Abs(x) == IF x < 0 THEN -x ELSE x

ScoreDen(cfg) == 80 * cfg.min_frequency * (cfg.min_complexity + cfg.max_complexity)

\* frequency with no cap: frequency / (min_freq * 2) * 0.3
FreqUncapped(frequency, cfg) == frequency

\* learn.py:173  min(frequency / (min_freq * 2), 1.0)
FreqCapped(frequency, cfg) == Min2(frequency, 2 * cfg.min_frequency)

\* learn.py:173  freq_score
FreqScoreNum(frequency, cfg) ==
    12 * FreqCapped(frequency, cfg) * (cfg.min_complexity + cfg.max_complexity)

\* every length scores the out-of-range 0.05
ComplexityScoreFloor(seq_len, cfg) ==
    4 * cfg.min_frequency * (cfg.min_complexity + cfg.max_complexity)

\* learn.py:176-182  complexity_score
ComplexityScoreNum(seq_len, cfg) ==
    LET span == cfg.min_complexity + cfg.max_complexity     \* 2 * optimal
    IN  IF cfg.min_complexity <= seq_len /\ seq_len <= cfg.max_complexity
        THEN 16 * cfg.min_frequency * (span - Abs(2 * seq_len - span))
        ELSE 4 * cfg.min_frequency * span

\* learn.py:185  domain_score
DomainScoreNum(domain_match, cfg) ==
    (IF domain_match # NoHint THEN 20 ELSE 8)
        * cfg.min_frequency * (cfg.min_complexity + cfg.max_complexity)

\* learn.py:188-189  distinctiveness_score
DistinctScoreNum(sequence, cfg) ==
    5 * Min2(Cardinality(Range(sequence)), 4)
        * cfg.min_frequency * (cfg.min_complexity + cfg.max_complexity)

\* round(x, 2) of x = num / den, in hundredths
Round2(num, den, half_up) ==
    LET q == (100 * num) \div den
        r == (100 * num) % den
    IN  IF 2 * r > den THEN q + 1
        ELSE IF 2 * r < den THEN q
        ELSE IF half_up THEN q + 1 ELSE q

IsHalfway(num, den) == 2 * ((100 * num) % den) = den

ScoreNum(sequence, frequency, domain_match, cfg) ==
    FreqScoreNum(frequency, cfg) + ComplexityScoreNum(Len(sequence), cfg)
        + DomainScoreNum(domain_match, cfg) + DistinctScoreNum(sequence, cfg)

calculate_candidate_score(sequence, frequency, domain_match, cfg, half_up) ==
    Round2(ScoreNum(sequence, frequency, domain_match, cfg), ScoreDen(cfg), half_up)

(***************************************************************************)
(* The scoring model: one call on arguments drawn from the valid inputs.   *)
(***************************************************************************)
\* a sequence of seq_len tools of which `unique` are distinct
ScoredSequence(seq_len, unique) ==
    [i \in 1..seq_len |-> IF i <= unique THEN <<"t", i>> ELSE <<"t", 1>>]

ScoreInputs ==
    [seq_len : 0..MaxSeqLen, unique : 0..MaxSeqLen, frequency : 0..MaxFrequency,
     domain : {NoHint, Git}, min_frequency : 1..MaxMinFrequency,
     min_complexity : 1..MaxComplexity, max_complexity : 1..MaxComplexity,
     half_up : BOOLEAN, called : {FALSE}]

ValidScoreInput(in) ==
    /\ in.min_complexity <= in.max_complexity
    /\ in.unique <= in.seq_len
    /\ (in.seq_len > 0 => in.unique > 0)

ScoreConfig(in) ==
    [min_frequency |-> in.min_frequency, min_complexity |-> in.min_complexity,
     max_complexity |-> in.max_complexity, score_threshold |-> 60]

DefaultConfig ==
    [min_frequency |-> 2, min_complexity |-> 3, max_complexity |-> 7, score_threshold |-> 60]

InitScore ==
    /\ score_in \in {in \in ScoreInputs : ValidScoreInput(in)}
    /\ score_out = 0
    /\ pc = "score"
    /\ tool_log = <<>>
    /\ config = DefaultConfig
    /\ repeated = <<>>
    /\ LearnIdle

\* learn.py:160-191
ScoreCall ==
    /\ pc = "score"
    /\ ~score_in.called
    /\ score_out' = calculate_candidate_score(
                        ScoredSequence(score_in.seq_len, score_in.unique),
                        score_in.frequency, score_in.domain, ScoreConfig(score_in),
                        score_in.half_up)
    /\ score_in' = [score_in EXCEPT !.called = TRUE]
    /\ UNCHANGED <<tool_log, config, pc, repeated, learnVars>>

NextScore == ScoreCall

SpecScore == InitScore /\ [][NextScore]_vars

(***************************************************************************)
(* learn.py: names, domains and candidates.                                *)
(***************************************************************************)
UpperCase == <<"A", "B", "C", "D", "E", "F", "G", "H", "I", "J", "K", "L", "M",
               "N", "O", "P", "Q", "R", "S", "T", "U", "V", "W", "X", "Y", "Z">>
LowerCase == <<"a", "b", "c", "d", "e", "f", "g", "h", "i", "j", "k", "l", "m",
               "n", "o", "p", "q", "r", "s", "t", "u", "v", "w", "x", "y", "z">>
Digits == <<"0", "1", "2", "3", "4", "5", "6", "7", "8", "9">>

\* str.lower() on one character
LowerChar(c) ==
    IF c \in Range(UpperCase)
    THEN LowerCase[CHOOSE i \in 1..Len(UpperCase) : UpperCase[i] = c]
    ELSE c

lower(str) == [i \in 1..Len(str) |-> LowerChar(str[i])]

isalnum(c) == c \in Range(UpperCase) \cup Range(LowerCase) \cup Range(Digits)

\* Counter(items).most_common(): by count, largest first; ties in insertion order
RECURSIVE ByCountDesc(_, _, _)
ByCountDesc(keys, items, c) ==
    IF c < 1 THEN <<>>
    ELSE SelectSeq(keys, LAMBDA k : Occurrences(items, k) = c)
            \o ByCountDesc(keys, items, c - 1)

most_common(items) == ByCountDesc(Dedup(items), items, Len(items))

Take(str, n) == SubSeq(str, 1, Min2(n, Len(str)))

Workflow == <<"w", "o", "r", "k", "f", "l", "o", "w">>
Dash == <<"-">>
NameLimit == 50

\* the name is derived from the single most frequent tool
generate_skill_name_top_tool(sequence, domain) ==
    LET top == Take(most_common(sequence), 1)
        top_tools == [i \in 1..Len(top) |-> lower(top[i])]
        name == (IF domain # NoHint THEN domain ELSE Workflow)
                    \o Dash \o Join(top_tools, Dash)
        valid == [i \in 1..Len(name) |-> IF isalnum(name[i]) \/ name[i] = "-"
                                          THEN name[i] ELSE "-"]
    IN  Take(valid, NameLimit)

\* learn.py:216-229
generate_skill_name(sequence, domain) ==
    LET top == Take(most_common(sequence), 2)
        top_tools == [i \in 1..Len(top) |-> lower(top[i])]
        name == (IF domain # NoHint THEN domain ELSE Workflow)
                    \o Dash \o Join(top_tools, Dash)
        valid == [i \in 1..Len(name) |-> IF isalnum(name[i]) \/ name[i] = "-"
                                          THEN name[i] ELSE "-"]
    IN  Take(valid, NameLimit)

\* learn.py:194-208
infer_domain_from_sequence(sequence, tool_patterns) ==
    LET hinted == SelectSeq(tool_patterns,
                      LAMBDA p : p.tool \in Range(sequence) /\ p.hint # NoHint)
        hints == [i \in 1..Len(hinted) |-> hinted[i].hint]
    IN  IF hints = <<>> THEN NoHint ELSE most_common(hints)[1]

\* round() of the float sum at an exact half, for the default min_frequency,
\* min_complexity and max_complexity: the <<length, unique tools (at most 4),
\* frequency (at most 4), has domain>> whose sum rounds up
FloatHalfUpDefault == {
    <<3, 2, 2, 1>>, <<3, 2, 4, 0>>, <<4, 2, 0, 0>>, <<4, 2, 0, 1>>, <<4, 2, 2, 0>>,
    <<4, 2, 2, 1>>, <<4, 2, 4, 0>>, <<4, 4, 1, 0>>, <<4, 4, 1, 1>>, <<4, 4, 3, 1>>,
    <<5, 2, 0, 0>>, <<5, 2, 4, 1>>, <<5, 4, 1, 1>>, <<5, 4, 3, 0>>, <<5, 4, 3, 1>>,
    <<6, 2, 0, 0>>, <<6, 2, 0, 1>>, <<6, 2, 2, 0>>, <<6, 2, 2, 1>>, <<6, 2, 4, 0>>,
    <<6, 4, 1, 0>>, <<6, 4, 1, 1>>, <<6, 4, 3, 1>>, <<7, 2, 2, 1>>, <<7, 2, 4, 0>>,
    <<7, 4, 1, 0>>, <<7, 4, 1, 1>> }

FloatHalfUp(sequence, frequency, domain) ==
    <<Len(sequence), Min2(Cardinality(Range(sequence)), 4), Min2(frequency, 4),
      IF domain # NoHint THEN 1 ELSE 0>> \in FloatHalfUpDefault

\* learn.py:421
ScoreOf(sequence, frequency, domain, cfg) ==
    calculate_candidate_score(sequence, frequency, domain, cfg,
                              FloatHalfUp(sequence, frequency, domain))

\* learn.py:232-261; candidate_id is a fresh uuid, here the registry index.
\* The record keeps the fields the registry operations and the run result
\* read (created_at and the intents list are left out).
create_candidate(id, sequence, frequency, domain, score) ==
    [candidate_id |-> id,
     skill_name |-> generate_skill_name(sequence, domain),
     domain |-> domain,
     score |-> score,
     frequency |-> frequency,
     tool_sequence |-> sequence,
     unique_tools |-> Range(sequence),
     status |-> "pending"]

\* the names of the artifacts and of the candidates of the registry
load_skills_and_candidates ==
    DOMAIN skills \cup {candidates[i].skill_name : i \in 1..Len(candidates)}

\* learn.py:342-349: the directory names under SKILLS_DIR
load_existing_skills == DOMAIN skills

(***************************************************************************)
(* prompt_analyzer.py: which tools follow which intents.  A prompt record  *)
(* carries the intents detect_intent finds in its text; its ts is the      *)
(* number of tool records written before it.                               *)
(***************************************************************************)
Fix == <<"f", "i", "x">>
IntentPrefix == <<"i", "n", "t", "e", "n", "t", "-">>
FollowLimit == 5

\* prompt_analyzer.py:102-123: the records of one session, with their positions
SessionRecords(log, sid) ==
    SelectSeq([i \in 1..Len(log) |-> [rec |-> log[i], ts |-> i]],
              LAMBDA r : SessionOf(r.rec) = sid)

\* prompt_analyzer.py:264-271
tools_after(log, prompt) ==
    LET after == SelectSeq(SessionRecords(log, prompt.session_id),
                           LAMBDA r : r.ts > prompt.ts)
    IN  Take([i \in 1..Len(after) |-> after[i].rec.tool], FollowLimit)

\* prompt_analyzer.py:240-282: prompts grouped by session, sessions in first-seen order
correlate_prompts_to_tools(prompts, log) ==
    LET with_sid == SelectSeq(prompts, LAMBDA p : p.session_id # MISSING)
        order == Dedup([i \in 1..Len(with_sid) |-> with_sid[i].session_id])
        grouped == Flatten([k \in 1..Len(order) |->
                       SelectSeq(with_sid, LAMBDA p : p.session_id = order[k])])
        all == [i \in 1..Len(grouped) |->
                   [intents |-> grouped[i].intents,
                    tools_that_followed |-> tools_after(log, grouped[i])]]
    IN  SelectSeq(all, LAMBDA c : c.tools_that_followed # <<>>)

\* prompt_analyzer.py:285-302: per intent, the tools in the order they are counted
IntentTools(correlations, intent) ==
    Flatten([i \in 1..Len(correlations) |->
        IF intent \in Range(correlations[i].intents)
        THEN Flatten([k \in 1..Occurrences(correlations[i].intents, intent) |->
                         correlations[i].tools_that_followed])
        ELSE <<>>])

IntentOrder(correlations) ==
    LET with_tools == SelectSeq(correlations, LAMBDA c : c.intents # <<>>)
    IN  Dedup(Flatten([i \in 1..Len(with_tools) |-> with_tools[i].intents]))

\* run_prompt_analysis()["intent_tool_patterns"]: <<intent, tools counted>> in dict order
run_prompt_analysis(prompts, log) ==
    IF prompts = <<>> THEN <<>>
    ELSE LET corr == correlate_prompts_to_tools(prompts, log)
             order == IntentOrder(corr)
         IN  [i \in 1..Len(order) |-> <<order[i], IntentTools(corr, order[i])>>]

IntentScoreBase == 60
IntentScoreStep == 2
IntentScoreCap == 95
IntentMinUses == 3
IntentTopTools == 4

\* learn.py:445-476, one intent: the candidate it yields, if any
IntentCandidate(intent, counted, existing_skills) ==
    LET top5 == Take(most_common(counted), FollowLimit)
        total_uses == Cardinality({i \in 1..Len(counted) : counted[i] \in Range(top5)})
        top_tools == Take(top5, IntentTopTools)
    IN  IF total_uses < IntentMinUses \/ Len(top_tools) < 2
           \/ (IntentPrefix \o intent) \in existing_skills
        THEN <<>>
        ELSE << [candidate_id |-> 0,
                 skill_name |-> IntentPrefix \o intent,
                 domain |-> intent,
                 score |-> Min2(IntentScoreBase + IntentScoreStep * total_uses,
                                IntentScoreCap),
                 frequency |-> total_uses,
                 tool_sequence |-> top_tools,
                 unique_tools |-> Range(top_tools),
                 source |-> "prompt_analysis",
                 status |-> "pending"] >>

(***************************************************************************)
(* learn.py: run_learning                                                  *)
(***************************************************************************)
MinPatterns == 5

\* a candidate is created whatever artifacts exist
SequenceCandidateUndeduplicated(pattern, log, cfg, existing_skills) ==
    LET sequence == pattern[1]
        frequency == pattern[2]
        domain == infer_domain_from_sequence(sequence, log)
        score == ScoreOf(sequence, frequency, domain, cfg)
        candidate == create_candidate(0, sequence, frequency, domain, score)
    IN  IF score >= cfg.score_threshold THEN <<candidate>> ELSE <<>>

\* learn.py:416-434, one mined pattern: the candidate it yields, if any
SequenceCandidate(pattern, log, cfg, existing_skills) ==
    LET sequence == pattern[1]
        frequency == pattern[2]
        domain == infer_domain_from_sequence(sequence, log)
        score == ScoreOf(sequence, frequency, domain, cfg)
        candidate == create_candidate(0, sequence, frequency, domain, score)
    IN  IF score >= cfg.score_threshold /\ candidate.skill_name \notin existing_skills
        THEN <<candidate>>
        ELSE <<>>

\* the candidates one run creates, in creation order, before ids are drawn
NewCandidates(log, prompts, cfg, existing_skills) ==
    IF Len(log) < MinPatterns THEN <<>>
    ELSE LET mined == find_repeated_subsequences(extract_tool_sequences(log),
                          cfg.min_complexity, cfg.max_complexity)
             intents == run_prompt_analysis(prompts, log)
         IN  Flatten([i \in 1..Len(mined) |->
                         SequenceCandidate(mined[i], log, cfg, existing_skills)])
             \o Flatten([i \in 1..Len(intents) |->
                         IntentCandidate(intents[i][1], intents[i][2], existing_skills)])

\* generate_candidate_id: ids never seen before
WithIds(new, first) ==
    [i \in 1..Len(new) |-> [new[i] EXCEPT !.candidate_id = first + i - 1]]

(***************************************************************************)
(* The learning model: a log of whole sessions, then mining runs,          *)
(* approvals and rejections in any order.                                  *)
(***************************************************************************)
GitBash == [tool |-> Bash, hint |-> Git]       \* Bash running git: domain_hint "git"
PlainRead == [tool |-> Read, hint |-> NoHint]

SessionShapes == {
    <<GitBash, GitBash, PlainRead>>,
    <<GitBash, PlainRead, GitBash>>,
    <<PlainRead, PlainRead>> }

\* the logs in which session k, with shape shapes[k], ran after session k - 1
LearnLogs ==
    LET SessionNames == <<"s1", "s2", "s3", "s4", "s5", "s6">>
        LogOf(shapes) ==
            Flatten([k \in 1..Len(shapes) |->
                [i \in 1..Len(shapes[k]) |->
                    ToolRecord(SessionNames[k], shapes[k][i].tool, shapes[k][i].hint)]])
    IN  {LogOf(shapes) : shapes \in UNION {[1..n -> SessionShapes] : n \in 0..MaxSessions}}

(***************************************************************************)
(* An artifact directory: SKILL.md (the front matter fields the scripts    *)
(* read, and the number of newlines that lead its body), skill.meta.json,  *)
(* the entries of CHANGELOG.md (newest first) and the commits requested.   *)
(* A version string is the sequence of its dot-separated numbers.          *)
(***************************************************************************)
FirstVersion == <<1, 0, 0>>

\* generate.py:80-88: the front matter generate_skill_md writes
SkillMd(allowed_tools, version, body_newlines) ==
    [empty |-> FALSE, allowed_tools |-> allowed_tools, version |-> version,
     body_newlines |-> body_newlines]

\* generate.py:141-162: generate_meta_json; usage_count and success_rate
\* (in hundredths) are the effectiveness block
SkillMeta(version, source_patterns, improved) ==
    [empty |-> FALSE, version |-> version, source_patterns |-> source_patterns,
     last_improvement |-> improved, usage_count |-> 0, success_rate |-> 100]

\* a file that was opened for writing and never written: zero bytes
EmptyMd == [empty |-> TRUE, allowed_tools |-> <<>>, version |-> <<>>, body_newlines |-> 0]
EmptyMeta == [empty |-> TRUE, version |-> <<>>, source_patterns |-> <<>>,
              last_improvement |-> FALSE, usage_count |-> 0, success_rate |-> 100]

\* the orders in which the tools of a set can be listed
Orderings(S) == {f \in [1..Cardinality(S) -> S] : Range(f) = S}

\* learn.py:251 and 470: candidate["unique_tools"] is list(set(sequence)), in
\* whatever order the set iterates, or the top tools of an intent in rank order
ToolOrders(candidate) ==
    IF "source" \in DOMAIN candidate THEN {candidate.tool_sequence}
    ELSE Orderings(candidate.unique_tools)

\* generate.py:312-331 and 230-255: what generate_skill writes for a candidate
ArtifactOf(candidate, tools) ==
    [md |-> SkillMd(tools, FirstVersion, 2),
     meta |-> SkillMeta(FirstVersion, <<candidate.candidate_id>>, FALSE),
     changelog |-> <<[version |-> FirstVersion, changes |-> <<>>]>>,
     commits |-> <<FirstVersion>>]

\* an artifact that was there before any run
OlderArtifact ==
    [md |-> SkillMd(<<Bash>>, FirstVersion, 2),
     meta |-> SkillMeta(FirstVersion, <<>>, FALSE),
     changelog |-> <<[version |-> FirstVersion, changes |-> <<>>]>>,
     commits |-> <<FirstVersion>>]

GitBashRead == generate_skill_name(<<Bash, Bash, Read>>, Git)

InitLearn ==
    /\ tool_log \in LearnLogs
    \* no prompt, or one "fix" prompt at the start of session s1
    /\ user_prompts \in { <<>>, <<[session_id |-> "s1", intents |-> <<Fix>>, ts |-> 0]>> }
    /\ config \in { DefaultConfig, [DefaultConfig EXCEPT !.score_threshold = 70] }
    /\ skills \in { <<>>, [n \in {GitBashRead} |-> OlderArtifact] }
    /\ candidates = <<>>
    /\ runs = <<>>
    /\ applied = <<>>
    /\ feedback = <<>>
    /\ commands = <<>>
    /\ LoadIdle
    /\ pc = "learn"
    /\ repeated = <<>>
    /\ ScoreIdle

\* learn.py:352-486
RunLearning ==
    /\ pc = "learn"
    /\ Len(runs) < MaxRuns
    /\ LET created == WithIds(NewCandidates(tool_log, user_prompts, config,
                                            load_existing_skills),
                              Len(candidates) + 1)
       IN  /\ candidates' = candidates \o created
           /\ runs' = Append(runs, [returned |-> created, existing |-> DOMAIN skills])
    /\ UNCHANGED <<tool_log, config, pc, repeated, scoreVars, loadVars, user_prompts, skills, applied,
                   commandVars>>

\* the user may still approve or reject candidate cid
MayReview(cid) ==
    Cardinality({i \in 1..Len(candidates) :
                    i # cid /\ candidates[i].status # "pending"}) < MaxReviewed

\* generate.py:288-378  generate_skill(candidate_id) on a candidate of the registry
generate_skill(cid) ==
    /\ pc = "learn"
    /\ cid \in 1..Len(candidates)
    /\ MayReview(cid)
    /\ candidates[cid].skill_name \notin DOMAIN skills
    /\ \E tools \in ToolOrders(candidates[cid]) :
           skills' = [n \in DOMAIN skills \cup {candidates[cid].skill_name} |->
                         IF n = candidates[cid].skill_name
                         THEN ArtifactOf(candidates[cid], tools) ELSE skills[n]]
    /\ candidates' = [candidates EXCEPT ![cid].status = "approved"]
    /\ UNCHANGED <<tool_log, config, pc, repeated, scoreVars, loadVars, user_prompts, runs, applied,
                   commandVars>>

\* generate.py:381-402  reject_candidate(candidate_id) on a candidate of the registry
reject_candidate(cid) ==
    /\ pc = "learn"
    /\ cid \in 1..Len(candidates)
    /\ MayReview(cid)
    /\ candidates' = [candidates EXCEPT ![cid].status = "rejected"]
    /\ UNCHANGED <<tool_log, config, pc, repeated, scoreVars, loadVars, user_prompts, skills, runs,
                   applied, commandVars>>

NextLearn ==
    \/ RunLearning
    \/ \E cid \in 1..Len(candidates) : generate_skill(cid)
    \/ \E cid \in 1..Len(candidates) : reject_candidate(cid)

SpecLearn == InitLearn /\ [][NextLearn]_vars

(***************************************************************************)
(* The learning pass on the log of end-to-end scenario 1: three sessions,  *)
(* each of which ran exactly the tools git, build and test in that order,  *)
(* default configuration, no prompts, no artifact and no candidate yet.    *)
(* The records of the sessions interleave in the log in every way, and the *)
(* git record of the first so many sessions carries the domain_hint "git". *)
(***************************************************************************)
ScenarioSequence == <<Git, <<"b", "u", "i", "l", "d">>, <<"t", "e", "s", "t">>>>
ScenarioSessionIds == <<"s1", "s2", "s3">>

\* assign[i] is the session of record i; sessions are numbered in the order
\* of their first record; record i runs the tool at the rank it has among
\* the records of its session
InitScenario ==
    /\ \E assign \in [1..(Len(ScenarioSessionIds) * Len(ScenarioSequence))
                          -> 1..Len(ScenarioSessionIds)] :
       \E hinted \in 0..Len(ScenarioSessionIds) :
         LET FirstOf(k) == CHOOSE i \in DOMAIN assign :
                               /\ assign[i] = k
                               /\ \A j \in 1..(i - 1) : assign[j] # k
             RankIn(i) == Cardinality({j \in 1..i : assign[j] = assign[i]})
         IN  /\ \A k \in 1..Len(ScenarioSessionIds) :
                    Cardinality({i \in DOMAIN assign : assign[i] = k})
                        = Len(ScenarioSequence)
             /\ \A k \in 1..(Len(ScenarioSessionIds) - 1) : FirstOf(k) < FirstOf(k + 1)
             /\ tool_log = [i \in DOMAIN assign |->
                    ToolRecord(ScenarioSessionIds[assign[i]],
                               ScenarioSequence[RankIn(i)],
                               IF RankIn(i) = 1 /\ assign[i] <= hinted
                               THEN Git ELSE NoHint)]
    /\ user_prompts = <<>>
    /\ config = DefaultConfig
    /\ skills = <<>>
    /\ candidates = <<>>
    /\ runs = <<>>
    /\ applied = <<>>
    /\ feedback = <<>>
    /\ commands = <<>>
    /\ LoadIdle
    /\ pc = "learn"
    /\ repeated = <<>>
    /\ ScoreIdle

SpecScenario == InitScenario /\ [][NextLearn]_vars

(***************************************************************************)
(* improve.py: applying an improvement proposal to an artifact.            *)
(* Confidences and thresholds are in hundredths.                           *)
(***************************************************************************)
Edit == <<"E", "d", "i", "t">>

\* improve.py:339-347 and 592: what generate_improvement proposes, or 1.0 when forced
Proposals ==
    [confidence : {60, 80, 90}, missing_tools : {<<>>, <<Read, Edit>>}]

\* the proposal is applied whatever its confidence
never_below_threshold(proposal, cfg) == FALSE

\* improve.py:357
below_threshold(proposal, cfg) == proposal.confidence < cfg.auto_apply_threshold

\* improve.py:360-361  load_skill_md: None when there is no file, "" when it is empty
load_skill_md(skill_name) ==
    IF skill_name \in DOMAIN skills THEN skills[skill_name].md ELSE EmptyMd

\* improve.py:366  load_skill_meta: None when there is no file or it does not parse
load_skill_meta(skill_name) ==
    IF skill_name \in DOMAIN skills THEN skills[skill_name].meta ELSE EmptyMeta

\* improve.py:378-381: the tools appended to allowed-tools, in proposal order
RECURSIVE AddTools(_, _)
\* every proposed tool is appended, present or not
AppendTools(allowed_tools, missing) == allowed_tools \o missing

AddTools(allowed_tools, missing) ==
    IF missing = <<>> THEN allowed_tools
    ELSE AddTools(IF Head(missing) \in Range(allowed_tools) THEN allowed_tools
                  ELSE Append(allowed_tools, Head(missing)),
                  Tail(missing))

\* improve.py:381  changes_made: one entry per tool appended
ChangesMade(allowed_tools, missing) ==
    SubSeq(AddTools(allowed_tools, missing), Len(allowed_tools) + 1,
           Len(AddTools(allowed_tools, missing)))

\* the minor bump without the reset of the patch component
BumpMinorOnly(version) ==
    IF Len(version) = 3 THEN <<version[1], version[2] + 1, version[3]>> ELSE version

\* improve.py:386-391: minor bump of a three-part version
BumpVersion(version) ==
    IF Len(version) = 3 THEN <<version[1], version[2] + 1, 0>> ELSE version

\* how a write can end: the file is written; open() failed and the file is as
\* it was; open() truncated the file and the write failed
WriteOutcomes == {"written", "unopened", "truncated"}

\* improve.py:60-68 and 82-91: save_skill_meta / save_skill_md catch the
\* exception and return False; the caller ignores the result
FileAfter(old, new, empty, outcome) ==
    CASE outcome = "written" -> new
      [] outcome = "unopened" -> old
      [] outcome = "truncated" -> empty

\* improve.py:94-155: serialize_skill_yaml(parse_skill_yaml(content)) puts one
\* more newline in front of the body than parse_skill_yaml found there
NewMd(md, allowed_tools, version) ==
    SkillMd(allowed_tools, version, md.body_newlines + 1)

\* improve.py:369-414: the artifact after a proposal that passed the threshold
ImprovedArtifact(artifact, proposal, md_outcome, meta_outcome) ==
    LET md == artifact.md
        meta == artifact.meta
        allowed_tools == AddTools(md.allowed_tools, proposal.missing_tools)
        changes_made == ChangesMade(md.allowed_tools, proposal.missing_tools)
        new_version == BumpVersion(md.version)
    IN  [md |-> FileAfter(md, NewMd(md, allowed_tools, new_version), EmptyMd, md_outcome),
         meta |-> FileAfter(meta,
                            [meta EXCEPT !.version = new_version,
                                         !.last_improvement = TRUE],
                            EmptyMeta, meta_outcome),
         changelog |-> <<[version |-> new_version, changes |-> changes_made]>>
                           \o artifact.changelog,
         commits |-> Append(artifact.commits, new_version)]

\* what one apply_improvement call did; absent stands for "no such directory"
Absent == [md |-> EmptyMd, meta |-> EmptyMeta, changelog |-> <<>>, commits |-> <<>>]

ArtifactNamed(dir, skill_name) ==
    IF skill_name \in DOMAIN dir THEN dir[skill_name] ELSE Absent

Applied(skill_name, proposal, verbose, returned, printed, after) ==
    [skill_name |-> skill_name, proposal |-> proposal, verbose |-> verbose,
     auto_threshold |-> config.auto_apply_threshold,
     before |-> ArtifactNamed(skills, skill_name),
     after |-> ArtifactNamed(after, skill_name),
     returned |-> returned, printed |-> printed]

\* improve.py:352-422: the directory after the call, what it returned and printed
ApplyResult(skill_name, proposal, verbose, md_outcome, meta_outcome) ==
    IF below_threshold(proposal, config)
    THEN [skills |-> skills, returned |-> FALSE,
          printed |-> IF verbose THEN <<"below threshold", "queued">> ELSE <<>>]
    ELSE IF load_skill_md(skill_name).empty \/ load_skill_meta(skill_name).empty
    THEN [skills |-> skills, returned |-> FALSE, printed |-> <<>>]
    ELSE [skills |-> [skills EXCEPT ![skill_name] =
                         ImprovedArtifact(@, proposal, md_outcome, meta_outcome)],
          returned |-> TRUE,
          printed |-> IF verbose THEN <<"applied">> ELSE <<>>]

\* improve.py:352-422
apply_improvement(skill_name, proposal, verbose, md_outcome, meta_outcome) ==
    /\ pc = "improve"
    /\ Len(applied) < MaxApplies
    /\ LET result == ApplyResult(skill_name, proposal, verbose, md_outcome, meta_outcome)
       IN  /\ skills' = result.skills
           /\ applied' = Append(applied,
                  Applied(skill_name, proposal, verbose, result.returned,
                          result.printed, result.skills))
    /\ UNCHANGED <<tool_log, config, pc, repeated, scoreVars, loadVars, user_prompts,
                   candidates, runs, commandVars>>

InitImprove ==
    \* the artifact as generated, or with the patch number of its version
    \* raised by hand in SKILL.md and .meta.json
    /\ skills \in {<<>>} \cup
           {[n \in {GitBashRead} |->
                [ArtifactOf([candidate_id |-> 1], tools)
                    EXCEPT !.md.version = <<1, 0, patch>>, !.meta.version = <<1, 0, patch>>]] :
               tools \in {<<Bash>>, <<Bash, Read>>}, patch \in {0, 1}}
    \* improve.py:354  the "improvement" block of config.json, or the default 0.9
    /\ config \in {[auto_apply_threshold |-> t] : t \in {90, 70}}
    /\ applied = <<>>
    /\ feedback = <<>>
    /\ commands = <<>>
    /\ LoadIdle
    /\ pc = "improve"
    /\ tool_log = <<>>
    /\ repeated = <<>>
    /\ user_prompts = <<>>
    /\ candidates = <<>>
    /\ runs = <<>>
    /\ ScoreIdle

NextImprove ==
    \E proposal \in Proposals, verbose \in BOOLEAN, md_outcome, meta_outcome \in WriteOutcomes :
        apply_improvement(GitBashRead, proposal, verbose, md_outcome, meta_outcome)

SpecImprove == InitImprove /\ [][NextImprove]_vars

(***************************************************************************)
(* improve.py: analysing an artifact and proposing an improvement.         *)
(* Rates, confidences and thresholds are in hundredths.                    *)
(***************************************************************************)
\* improve.py:31-38  the defaults of the "improvement" block
DefaultImprovement ==
    [auto_apply_threshold |-> 90, min_usage_before_improve |-> 10,
     success_rate_trigger |-> 70]

MostCommonFailures == 5

\* improve.py:214-243; records are the in-window records of feedback.jsonl;
\* failure_types is the list of <<error_type, count>> pairs in most_common
\* order.  The rate is round(successes / total, 2): a log of fewer than 8
\* classified records has no quotient halfway between two hundredths.
analyze_effectiveness(meta, records) ==
    LET successes == Len(SelectSeq(records, LAMBDA f : f.classification = "success"))
        failures == SelectSeq(records, LAMBDA f : f.classification = "failure")
        total == successes + Len(failures)
        types == [i \in 1..Len(failures) |-> failures[i].error_type]
        top == Take(most_common(types), MostCommonFailures)
    IN  [usage_count |-> meta.usage_count + Len(records),
         success_rate |-> IF total > 0
                          THEN (200 * successes + total) \div (2 * total)
                          ELSE meta.success_rate,
         failure_types |-> [i \in 1..Len(top) |-> <<top[i], Occurrences(types, top[i])>>],
         total_feedback |-> total]

UsedToolsLimit == 10
MissingMinCount == 3
MissingLimit == 5

\* improve.py:246-278; md is the SKILL.md of the skill (empty: no suggestions)
detect_missing_tools(md, log) ==
    IF md.empty THEN <<>>
    ELSE LET tools == SelectSeq([i \in 1..Len(log) |-> log[i].tool],
                                LAMBDA t : t # NoTool)
             used == Take(most_common(tools), UsedToolsLimit)
         IN  Take(SelectSeq(used, LAMBDA t : /\ t \notin Range(md.allowed_tools)
                                             /\ Occurrences(tools, t) >= MissingMinCount),
                  MissingLimit)

RecurringMin == 3
ConfidenceBase == 50
ConfidenceMissingTools == 30
ConfidenceLowRate == 10
ConfidenceMuchUsage == 10
LowRate == 50
ConfidenceCap == 100

\* improve.py:297-327  the types of the improvements listed, in order: the
\* success rate is low and the skill was used enough (297-305), tools are
\* missing (308-315), the most common error_type recurs (317-327)
Improvements(analysis, missing_tools, cfg) ==
    (IF /\ analysis.usage_count >= cfg.min_usage_before_improve
        /\ analysis.success_rate < cfg.success_rate_trigger
     THEN <<"success_rate_low">> ELSE <<>>)
    \o (IF missing_tools # <<>> THEN <<"missing_tools">> ELSE <<>>)
    \o (IF /\ analysis.failure_types # <<>>
           /\ analysis.failure_types[1][2] >= RecurringMin
        THEN <<"recurring_failure">> ELSE <<>>)

\* the increment for a low success rate is given up to and including one half
confidence_rate_inclusive(analysis, missing_tools, cfg) ==
    Min2(ConfidenceBase
         + (IF missing_tools # <<>> THEN ConfidenceMissingTools ELSE 0)
         + (IF analysis.success_rate <= LowRate THEN ConfidenceLowRate ELSE 0)
         + (IF analysis.usage_count >= cfg.min_usage_before_improve * 2
            THEN ConfidenceMuchUsage ELSE 0),
         ConfidenceCap)

\* improve.py:332-339 and 345
confidence(analysis, missing_tools, cfg) ==
    Min2(ConfidenceBase
         + (IF missing_tools # <<>> THEN ConfidenceMissingTools ELSE 0)
         + (IF analysis.success_rate < LowRate THEN ConfidenceLowRate ELSE 0)
         + (IF analysis.usage_count >= cfg.min_usage_before_improve * 2
            THEN ConfidenceMuchUsage ELSE 0),
         ConfidenceCap)

\* generate_improvement returned None
NoProposal == [none |-> TRUE]

\* improve.py:281-349
generate_improvement(analysis, missing_tools, cfg) ==
    IF Improvements(analysis, missing_tools, cfg) = <<>> THEN NoProposal
    ELSE [none |-> FALSE,
          improvements |-> Improvements(analysis, missing_tools, cfg),
          confidence |-> confidence(analysis, missing_tools, cfg),
          analysis |-> analysis,
          missing_tools |-> missing_tools]

(***************************************************************************)
(* The command lines: improve.py check / improve, manage.py improve /      *)
(* approve / reject.  A command is recorded with the directories before    *)
(* and after it, what it printed and its exit status.                      *)
(***************************************************************************)
\* improve.py:492-528  check_skill: the proposal, or None when the skill has
\* no metadata or needs no improvement
check_skill(skill_name) ==
    IF load_skill_meta(skill_name).empty THEN NoProposal
    ELSE generate_improvement(
             analyze_effectiveness(load_skill_meta(skill_name), feedback),
             detect_missing_tools(load_skill_md(skill_name), tool_log),
             config)

\* improve.py:494-498 and 519-526  what check_skill prints when verbose
CheckPrinted(skill_name, verbose) ==
    IF ~verbose THEN <<>>
    ELSE IF load_skill_meta(skill_name).empty THEN <<"skill not found">>
    ELSE IF check_skill(skill_name).none THEN <<"analyzing", "no improvements needed">>
    ELSE <<"analyzing", "proposal">>

\* the proposal keeps its confidence
Unforced(proposal, force) == proposal

\* improve.py:591-592, manage.py:307-308
Forced(proposal, force) ==
    IF force THEN [proposal EXCEPT !.confidence = ConfidenceCap] ELSE proposal

Command(name, target, force, quiet, proposal, writes, printed, exit_status, s, c) ==
    [command |-> name, target |-> target, force |-> force, quiet |-> quiet,
     config |-> config, proposal |-> proposal, writes |-> writes,
     printed |-> printed, exit_status |-> exit_status,
     before |-> [skills |-> skills, candidates |-> candidates],
     after |-> [skills |-> s, candidates |-> c]]

CommandFrame ==
    UNCHANGED <<tool_log, config, pc, repeated, scoreVars, loadVars, user_prompts, runs, applied,
                feedback>>

\* improve.py:573-576  main, action "check"
CheckMain(skill_name, quiet) ==
    /\ pc = "command"
    /\ Len(commands) < MaxCommands
    /\ commands' = Append(commands,
           Command("improve.py check", skill_name, FALSE, quiet, check_skill(skill_name),
                   <<>>, CheckPrinted(skill_name, ~quiet), 0, skills, candidates))
    /\ UNCHANGED <<skills, candidates>>
    /\ CommandFrame

\* improve.py:588-593  main, action "improve"
ImproveMain(skill_name, force, quiet, md_outcome, meta_outcome) ==
    /\ pc = "command"
    /\ Len(commands) < MaxCommands
    /\ LET proposal == check_skill(skill_name)
           result == ApplyResult(skill_name, Forced(proposal, force), ~quiet,
                                 md_outcome, meta_outcome)
       IN  IF proposal.none
           THEN /\ commands' = Append(commands,
                       Command("improve.py improve", skill_name, force, quiet, proposal,
                               <<>>, CheckPrinted(skill_name, ~quiet), 0,
                               skills, candidates))
                /\ UNCHANGED skills
           ELSE /\ commands' = Append(commands,
                       Command("improve.py improve", skill_name, force, quiet, proposal,
                               IF result.returned THEN <<md_outcome, meta_outcome>>
                               ELSE <<>>,
                               CheckPrinted(skill_name, ~quiet) \o result.printed, 0,
                               result.skills, candidates))
                /\ skills' = result.skills
    /\ UNCHANGED candidates
    /\ CommandFrame

\* manage.py:296-311  cmd_improve
cmd_improve(skill_name, force, md_outcome, meta_outcome) ==
    /\ pc = "command"
    /\ Len(commands) < MaxCommands
    /\ LET proposal == check_skill(skill_name)
           result == ApplyResult(skill_name, Forced(proposal, TRUE), TRUE,
                                 md_outcome, meta_outcome)
       IN  IF proposal.none \/ ~force
           THEN /\ commands' = Append(commands,
                       Command("manage.py improve", skill_name, force, FALSE, proposal,
                               <<>>,
                               CheckPrinted(skill_name, TRUE)
                                   \o (IF proposal.none THEN <<>> ELSE <<"use --force">>),
                               0, skills, candidates))
                /\ UNCHANGED skills
           ELSE /\ commands' = Append(commands,
                       Command("manage.py improve", skill_name, force, FALSE, proposal,
                               IF result.returned THEN <<md_outcome, meta_outcome>>
                               ELSE <<>>,
                               CheckPrinted(skill_name, TRUE) \o result.printed, 0,
                               result.skills, candidates))
                /\ skills' = result.skills
    /\ UNCHANGED candidates
    /\ CommandFrame

\* the approval without the check for an existing skill directory
cmd_approve_overwriting(cid, quiet) ==
    /\ pc = "command"
    /\ Len(commands) < MaxCommands
    /\ IF cid \notin 1..Len(candidates)
       THEN /\ commands' = Append(commands,
                   Command("manage.py approve", cid, FALSE, quiet, NoProposal, <<>>,
                           IF quiet THEN <<>> ELSE <<"candidate not found">>, 1,
                           skills, candidates))
            /\ UNCHANGED <<skills, candidates>>
       ELSE \E tools \in ToolOrders(candidates[cid]) :
              LET s == [n \in DOMAIN skills \cup {candidates[cid].skill_name} |->
                           IF n = candidates[cid].skill_name
                           THEN ArtifactOf(candidates[cid], tools) ELSE skills[n]]
                  c == [candidates EXCEPT ![cid].status = "approved"]
              IN  /\ skills' = s
                  /\ candidates' = c
                  /\ commands' = Append(commands,
                         Command("manage.py approve", cid, FALSE, quiet, NoProposal, <<>>,
                                 (IF quiet THEN <<>> ELSE <<"generated">>)
                                     \o <<"approved">>, 0, s, c))
    /\ CommandFrame

\* manage.py:131-143  cmd_approve, with generate.py:288-378
cmd_approve(cid, quiet) ==
    /\ pc = "command"
    /\ Len(commands) < MaxCommands
    /\ IF cid \notin 1..Len(candidates)
       THEN /\ commands' = Append(commands,
                   Command("manage.py approve", cid, FALSE, quiet, NoProposal, <<>>,
                           IF quiet THEN <<>> ELSE <<"candidate not found">>, 1,
                           skills, candidates))
            /\ UNCHANGED <<skills, candidates>>
       ELSE IF candidates[cid].skill_name \in DOMAIN skills
       THEN /\ commands' = Append(commands,
                   Command("manage.py approve", cid, FALSE, quiet, NoProposal, <<>>,
                           IF quiet THEN <<>> ELSE <<"skill already exists">>, 1,
                           skills, candidates))
            /\ UNCHANGED <<skills, candidates>>
       ELSE \E tools \in ToolOrders(candidates[cid]) :
              LET s == [n \in DOMAIN skills \cup {candidates[cid].skill_name} |->
                           IF n = candidates[cid].skill_name
                           THEN ArtifactOf(candidates[cid], tools) ELSE skills[n]]
                  c == [candidates EXCEPT ![cid].status = "approved"]
              IN  /\ skills' = s
                  /\ candidates' = c
                  /\ commands' = Append(commands,
                         Command("manage.py approve", cid, FALSE, quiet, NoProposal, <<>>,
                                 (IF quiet THEN <<>> ELSE <<"generated">>)
                                     \o <<"approved">>, 0, s, c))
    /\ CommandFrame

\* manage.py:146-156  cmd_reject, with generate.py:381-402
cmd_reject(cid, quiet) ==
    /\ pc = "command"
    /\ Len(commands) < MaxCommands
    /\ IF cid \notin 1..Len(candidates)
       THEN /\ commands' = Append(commands,
                   Command("manage.py reject", cid, FALSE, quiet, NoProposal, <<>>,
                           IF quiet THEN <<>> ELSE <<"candidate not found">>, 1,
                           skills, candidates))
            /\ UNCHANGED candidates
       ELSE LET c == [candidates EXCEPT ![cid].status = "rejected"]
            IN  /\ candidates' = c
                /\ commands' = Append(commands,
                       Command("manage.py reject", cid, FALSE, quiet, NoProposal, <<>>,
                               IF quiet THEN <<>> ELSE <<"rejected">>, 0, skills, c))
    /\ UNCHANGED skills
    /\ CommandFrame

UnknownSkill == <<"n", "o", "n", "e">>

\* skills: none, or git-bash-read with an effectiveness block that an outside
\* tracker has filled in; candidates: none, or one pending, or two pending
\* that two runs created under the name git-bash-read; tool log: empty,
\* or Read and Edit each used three times in one session; feedback: none, or
\* the same failure three times
InitCommand ==
    /\ skills \in {<<>>} \cup
           {[n \in {GitBashRead} |->
                [ArtifactOf([candidate_id |-> 1], <<Bash>>) EXCEPT
                    !.meta.usage_count = u, !.meta.success_rate = r]] :
               u \in {0, 10, 12, 20}, r \in {40, 50}}
    /\ candidates \in { <<>>, <<create_candidate(1, <<Read, Bash, Read>>, 2, NoHint, 60)>>,
                         <<create_candidate(1, <<Bash, Bash, Read>>, 2, Git, 60),
                           create_candidate(2, <<Bash, Bash, Read>>, 2, Git, 60)>> }
    /\ tool_log \in { <<>>, [i \in 1..6 |->
                                ToolRecord("s1", IF i <= 3 THEN Read ELSE Edit, NoHint)] }
    /\ feedback \in { <<>>, [i \in 1..3 |->
                                [classification |-> "failure", error_type |-> "timeout"]] }
    /\ config \in { DefaultImprovement,
                    [DefaultImprovement EXCEPT !.auto_apply_threshold = 70] }
    /\ commands = <<>>
    /\ LoadIdle
    /\ applied = <<>>
    /\ pc = "command"
    /\ repeated = <<>>
    /\ user_prompts = <<>>
    /\ runs = <<>>
    /\ ScoreIdle

\* the writes of a command succeed, or fail on open()
CommandWrites == {"written", "unopened"}

NextCommand ==
    \/ \E skill_name \in {GitBashRead, UnknownSkill}, quiet \in BOOLEAN :
           CheckMain(skill_name, quiet)
    \/ \E skill_name \in {GitBashRead, UnknownSkill}, force, quiet \in BOOLEAN,
          md_outcome, meta_outcome \in CommandWrites :
           ImproveMain(skill_name, force, quiet, md_outcome, meta_outcome)
    \/ \E skill_name \in {GitBashRead, UnknownSkill}, force \in BOOLEAN,
          md_outcome, meta_outcome \in CommandWrites :
           cmd_improve(skill_name, force, md_outcome, meta_outcome)
    \/ \E cid \in 1..2, quiet \in BOOLEAN : cmd_approve(cid, quiet)
    \/ \E cid \in 1..2, quiet \in BOOLEAN : cmd_reject(cid, quiet)

SpecCommand == InitCommand /\ [][NextCommand]_vars

\* "improve.py check" on an artifact that allows the first few of eleven
\* tools, over a tool log in which the first `used` of them were run, the
\* first `often` of those once more than the others
InitMissing ==
    /\ \E allowed \in {1, MissingLimit, UsedToolsLimit},
          used \in 1..(UsedToolsLimit + 1),
          least \in {MissingMinCount - 1, MissingMinCount} :
         \E often \in 0..used :
           LET names == <<Bash, Read, Edit,
                       <<"W","r","i","t","e">>,
                       <<"G","l","o","b">>,
                       <<"G","r","e","p">>,
                       <<"T","a","s","k">>,
                       <<"L","S">>,
                       <<"W","e","b","F","e","t","c","h">>,
                       <<"W","e","b","S","e","a","r","c","h">>,
                       <<"T","o","d","o","W","r","i","t","e">>>>
               uses == [i \in 1..used |->
                           [j \in 1..(IF i <= often THEN least + 1 ELSE least) |->
                               ToolRecord("s1", names[i], NoHint)]]
           IN  /\ skills = [n \in {GitBashRead} |->
                               ArtifactOf([candidate_id |-> 1], SubSeq(names, 1, allowed))]
               /\ tool_log = Flatten(uses)
    /\ candidates = <<>>
    /\ feedback = <<>>
    /\ config = DefaultImprovement
    /\ commands = <<>>
    /\ LoadIdle
    /\ applied = <<>>
    /\ pc = "command"
    /\ repeated = <<>>
    /\ user_prompts = <<>>
    /\ runs = <<>>
    /\ ScoreIdle

SpecMissing == InitMissing /\ [][\E quiet \in BOOLEAN : CheckMain(GitBashRead, quiet)]_vars

(***************************************************************************)
(* Reading a log: load_patterns of learn.py (load_feedback_patterns and    *)
(* load_tool_patterns of improve.py have the same two try blocks).  The    *)
(* log is the sequence of pieces written so far.  A piece is a whole line, *)
(* or, while a write of the hook is only partly visible to a reader, the   *)
(* first bytes of a record ("head", its "tail" follows) or a record        *)
(* without its newline ("body", the "newline" follows).  The kind of a     *)
(* line says what its text is: "record", a JSON object with a timestamp    *)
(* in the window; "old", one with a timestamp before the cutoff;           *)
(* "invalid_json", not JSON; "not_object", JSON that is a list, a string,  *)
(* a number or null; "bad_timestamp", a JSON object whose timestamp is     *)
(* not ISO 8601.                                                           *)
(***************************************************************************)
Piece(id, part, kind) == [id |-> id, part |-> part, kind |-> kind]

\* the text the next readline() returns once the reader consumed pos pieces:
\* up to the next newline, or up to the end of the file if no newline follows
readline(file, pos) ==
    LET first == file[pos + 1]
    IN  IF first.part \in {"head", "body"} /\ pos + 2 <= Len(file)
        THEN [text |-> Piece(first.id, "line", first.kind), pieces |-> 2]
        ELSE [text |-> first, pieces |-> 1]

\* learn.py:62-70  what the loop body does with one line: json.loads raises
\* JSONDecodeError on text that is not JSON, record.get raises AttributeError
\* on JSON that is not an object, fromisoformat raises ValueError; the inner
\* handler catches the first and the last, the outer one everything
line_outcome(text) ==
    IF text.part \in {"head", "tail", "newline"} THEN "continue"
    ELSE CASE text.kind = "record" -> "append"
           [] text.kind = "old" -> "pass"
           [] text.kind = "invalid_json" -> "continue"
           [] text.kind = "bad_timestamp" -> "continue"
           [] text.kind = "not_object" -> "stop"

\* learn.py:60-70  one iteration of "for line in f"
ReadLine ==
    /\ pc = "load"
    /\ reader.status = "reading"
    /\ reader.pos < Len(log_file)
    /\ LET line == readline(log_file, reader.pos)
           outcome == line_outcome(line.text)
       IN  /\ patterns' = IF outcome = "append"
                          THEN Append(patterns, line.text.id) ELSE patterns
           /\ reader' = [pos |-> reader.pos + line.pieces,
                         status |-> IF outcome = "stop" THEN "done" ELSE "reading"]
    /\ UNCHANGED <<log_file, hook>>
    /\ UNCHANGED <<tool_log, config, pc, repeated, scoreVars, user_prompts, skills,
                   candidates, runs, applied, commandVars>>

\* learn.py:60 and 75  readline() returns nothing more: the loop ends
EndOfFile ==
    /\ pc = "load"
    /\ reader.status = "reading"
    /\ reader.pos = Len(log_file)
    /\ reader' = [reader EXCEPT !.status = "done"]
    /\ UNCHANGED <<log_file, patterns, hook>>
    /\ UNCHANGED <<tool_log, config, pc, repeated, scoreVars, user_prompts, skills,
                   candidates, runs, applied, commandVars>>

\* the records written to the log, whole or in part
Records(file) == SelectSeq(file, LAMBDA p : p.part \in {"line", "head", "body"})

\* the ids of the well-formed in-window records of a file, in file order
InWindow(file) ==
    LET good == SelectSeq(Records(file), LAMBDA p : p.kind = "record")
    IN  [i \in 1..Len(good) |-> good[i].id]

LoadFrame ==
    UNCHANGED <<patterns, reader, tool_log, config, pc, repeated, scoreVars, user_prompts,
                skills, candidates, runs, applied, commandVars>>

\* post_tool_use.py:116-134  the hook appends one record with one write, and
\* readers see the whole line at once
HookAppend ==
    /\ pc = "load"
    /\ hook = NoPiece
    /\ Len(Records(log_file)) < MaxRecords
    /\ log_file' = Append(log_file, Piece(Len(Records(log_file)) + 1, "line", "record"))
    /\ UNCHANGED hook
    /\ LoadFrame

\* post_tool_use.py:133-134  the same write, of which readers first see only
\* a part: the first bytes of the record, or the record without its newline
HookAppendPart(part) ==
    /\ pc = "load"
    /\ hook = NoPiece
    /\ Len(Records(log_file)) < MaxRecords
    /\ log_file' = Append(log_file, Piece(Len(Records(log_file)) + 1, part, "record"))
    /\ hook' = Piece(Len(Records(log_file)) + 1,
                     IF part = "head" THEN "tail" ELSE "newline", "record")
    /\ LoadFrame

\* the rest of the write becomes visible
HookAppendRest ==
    /\ pc = "load"
    /\ hook # NoPiece
    /\ log_file' = Append(log_file, hook)
    /\ hook' = NoPiece
    /\ LoadFrame

\* a file of whole lines of every kind
InitLoad ==
    /\ log_file \in UNION {{[i \in 1..n |-> Piece(i, "line", kinds[i])] :
                                 kinds \in [1..n -> {"record", "old", "invalid_json",
                                                     "not_object", "bad_timestamp"}]} : n \in 0..MaxLines}
    /\ patterns = <<>>
    /\ reader = [pos |-> 0, status |-> "reading"]
    /\ hook = NoPiece
    /\ pc = "load"
    /\ tool_log = <<>>
    /\ config = DefaultConfig
    /\ repeated = <<>>
    /\ ScoreIdle
    /\ user_prompts = <<>>
    /\ skills = <<>>
    /\ candidates = <<>>
    /\ runs = <<>>
    /\ applied = <<>>
    /\ feedback = <<>>
    /\ commands = <<>>

NextLoad ==
    \/ ReadLine
    \/ EndOfFile

SpecLoad == InitLoad /\ [][NextLoad]_vars

\* a pass starts on a log of well-formed records while the hook appends
InitAppend ==
    /\ log_file \in {[i \in 1..n |-> Piece(i, "line", "record")] : n \in 0..1}
    /\ patterns = <<>>
    /\ reader = [pos |-> 0, status |-> "reading"]
    /\ hook = NoPiece
    /\ pc = "load"
    /\ tool_log = <<>>
    /\ config = DefaultConfig
    /\ repeated = <<>>
    /\ ScoreIdle
    /\ user_prompts = <<>>
    /\ skills = <<>>
    /\ candidates = <<>>
    /\ runs = <<>>
    /\ applied = <<>>
    /\ feedback = <<>>
    /\ commands = <<>>

NextAppend ==
    \/ ReadLine
    \/ EndOfFile
    \/ HookAppend
    \/ \E part \in {"head", "body"} : HookAppendPart(part)
    \/ HookAppendRest

SpecAppend == InitAppend /\ [][NextAppend]_vars

(***************************************************************************)
(* Claims about the miner (SpecMiner).                                     *)
(***************************************************************************)
MinedKeys == [i \in 1..Len(repeated) |-> repeated[i][1]]

\* the sessions' sequences the pass mined from
MinedFrom == extract_tool_sequences(tool_log)

SessionsContaining(sequences, ngram) ==
    Cardinality({s \in 1..Len(sequences) : IsSubTuple(ngram, sequences[s])})

\* every n-gram that occurred at least twice, before the subsumption reduction
RepeatedNgrams ==
    LET occ == AllNgrams(MinedFrom, config.min_complexity, config.max_complexity)
    IN  {ng \in Range(occ) : Occurrences(occ, ng) >= 2}

ToolEvents(log, sid) == Len(ToolsOfSession(log, sid))

WithoutSession(log, sid) == SelectSeq(log, LAMBDA p : SessionOf(p) # sid)

LogSessions(log) == {SessionOf(log[i]) : i \in 1..Len(log)}

\* C3: the frequency reported for a mined tuple is the number of distinct
\* sessions whose sequence contains it as a contiguous subsequence.
C3_FrequencyIsSessionCount ==
    pc = "mined" =>
        \A i \in 1..Len(repeated) :
            repeated[i][2] = SessionsContaining(MinedFrom, repeated[i][1])

\* C4: no two retained patterns exist such that the shorter one is a
\* contiguous sub-tuple of the longer one.
C4_NoSubsumedPair ==
    pc = "mined" =>
        \A i, j \in 1..Len(repeated) :
            Len(repeated[i][1]) < Len(repeated[j][1])
                => ~IsSubTuple(repeated[i][1], repeated[j][1])

\* a pass whose reduction dropped a repeated n-gram and kept a longer one
C4_Witness ==
    /\ pc = "mined"
    /\ repeated # <<>>
    /\ \E ng \in RepeatedNgrams :
          /\ ng \notin Range(MinedKeys)
          /\ \E j \in 1..Len(repeated) : IsSubTuple(ng, repeated[j][1])

\* C5: every returned pattern has min_len <= length <= max_len and a
\* frequency of at least 2.
C5_LengthAndFrequencyBounds ==
    pc = "mined" =>
        \A i \in 1..Len(repeated) :
            /\ config.min_complexity <= Len(repeated[i][1])
            /\ Len(repeated[i][1]) <= config.max_complexity
            /\ repeated[i][2] >= 2

\* a pass over a session longer than max_len that returned a pattern
C5_Witness ==
    /\ pc = "mined"
    /\ repeated # <<>>
    /\ \E s \in 1..Len(MinedFrom) : Len(MinedFrom[s]) > config.max_complexity

C21_RemovedOnlyIfSubTuple ==
    pc = "mined" =>
        \A ng \in RepeatedNgrams :
            ng \notin Range(MinedKeys)
                => \E j \in 1..Len(repeated) :
                       /\ Len(ng) < Len(repeated[j][1])
                       /\ IsSubTuple(ng, repeated[j][1])

\* C26: each session's tool sequence is in the order of the timestamps of
\* its records, ties in the order of the log, wherever the records lie in
\* the log: what a pass mines is what it mines from the log sorted by
\* timestamp (stably).
C26_SequencesInTimestampOrder ==
    (pc = "mined" /\ \A i \in DOMAIN tool_log : "timestamp" \in DOMAIN tool_log[i])
    => LET n == Len(tool_log)
           Rank(i) == 1 + Cardinality({j \in 1..n :
                          \/ tool_log[j].timestamp < tool_log[i].timestamp
                          \/ /\ tool_log[j].timestamp = tool_log[i].timestamp
                             /\ j < i})
           by_time == [k \in 1..n |-> tool_log[CHOOSE i \in 1..n : Rank(i) = k]]
       IN  repeated = find_repeated_subsequences(extract_tool_sequences(by_time),
                          config.min_complexity, config.max_complexity)
(***************************************************************************)
(* Claims about the scorer (SpecScore).                                    *)
(***************************************************************************)
\* C10: for any valid input combination the score lies in [0, 1]
\* (0..100 hundredths); it is a function of the arguments alone.
C10_ScoreBounded ==
    score_in.called => (0 <= score_out /\ score_out <= 100)

\* a call whose four sub-scores are all at their weight: the score is 1.0
C10_Witness ==
    /\ score_in.called
    /\ score_out = 100
    /\ score_in.frequency > 2 * score_in.min_frequency

\* C27 as stated: the complexity sub-score of a pattern whose length is
\* min_len or max_len (min_len < max_len) is near 0.05, here: within 0.02
\* of it.  The sub-score is what the score returned exceeds the other three
\* sub-scores by, known up to the half hundredth that round() may move the
\* sum; all terms are multiplied by the common denominator.
C27_ExtremesNearFloor ==
    (/\ score_in.called
     /\ score_in.min_complexity < score_in.max_complexity
     /\ score_in.seq_len \in {score_in.min_complexity, score_in.max_complexity})
    => LET cfg == ScoreConfig(score_in)
           sequence == ScoredSequence(score_in.seq_len, score_in.unique)
           others == FreqScoreNum(score_in.frequency, cfg)
                         + DomainScoreNum(score_in.domain, cfg)
                         + DistinctScoreNum(sequence, cfg)
           complexity == score_out * ScoreDen(cfg) - 100 * others
       IN  2 * Abs(complexity - 5 * ScoreDen(cfg)) <= (2 * 2 + 1) * ScoreDen(cfg)

\* C27: the complexity sub-score of a pattern of a length in [min_len,
\* max_len] is 0.20 * (1 - |length - mid| / mid) with mid the midpoint of
\* the range: 0.20 at the midpoint, less the further the length is from it,
\* and 0.20 * 2 * min_len / (min_len + max_len) at min_len and at max_len;
\* a length outside the range scores the floor 0.05.
C27_TriangularInRange ==
    score_in.called
    => LET cfg == ScoreConfig(score_in)
           sequence == ScoredSequence(score_in.seq_len, score_in.unique)
           others == FreqScoreNum(score_in.frequency, cfg)
                         + DomainScoreNum(score_in.domain, cfg)
                         + DistinctScoreNum(sequence, cfg)
           complexity == score_out * ScoreDen(cfg) - 100 * others
           span == score_in.min_complexity + score_in.max_complexity
           in_range == /\ score_in.min_complexity <= score_in.seq_len
                       /\ score_in.seq_len <= score_in.max_complexity
           \* 100 * span * the sub-score
           expected == IF in_range
                       THEN 20 * (span - Abs(2 * score_in.seq_len - span))
                       ELSE 5 * span
       IN  /\ 2 * Abs(span * complexity - expected * ScoreDen(cfg)) <= span * ScoreDen(cfg)
           /\ (in_range /\ 2 * score_in.seq_len = span) => expected = 20 * span
           /\ (in_range /\ score_in.seq_len = score_in.min_complexity)
                  => expected = 20 * 2 * score_in.min_complexity
           /\ (in_range /\ score_in.seq_len = score_in.max_complexity)
                  => expected = 20 * 2 * score_in.min_complexity

\* a pattern of the largest accepted length 4 under min_len 2 whose other
\* sub-scores are full: 0.30 + 0.1333 + 0.25 + 0.25 rounds to 0.93
C27_Witness ==
    /\ score_in.called
    /\ score_in.min_complexity = 2 /\ score_in.max_complexity = 4
    /\ score_in.seq_len = 4 /\ score_in.unique = 4
    /\ score_in.frequency = 4 /\ score_in.min_frequency = 2
    /\ score_in.domain = Git
    /\ score_out = 93
(***************************************************************************)
(* Claims about the learning run and the candidate registry (SpecLearn).   *)
(***************************************************************************)
\* what two runs are compared on: everything but candidate_id
NetOfId(created) ==
    [i \in 1..Len(created) |->
        <<created[i].skill_name, created[i].tool_sequence,
          created[i].score, created[i].frequency>>]

\* C7: within one mining run no two persisted candidates carry the same
\* skill name: of two mined tuples that derive the same name only the first
\* is persisted.
C7_OneCandidatePerName ==
    \A r \in 1..Len(runs) :
        \A i, j \in 1..Len(runs[r].returned) :
            runs[r].returned[i].skill_name = runs[r].returned[j].skill_name => i = j

C9_StatusTerminal ==
    [][\A cid \in 1..Len(candidates) :
          candidates[cid].status # "pending"
              => candidates'[cid].status = candidates[cid].status]_vars

\* C11: every candidate a mining run wrote to the registry, whether mined
\* from sequences or derived from an intent, has a score of at least the
\* configured score_threshold.
C11_PersistedAboveThreshold ==
    \A r \in 1..Len(runs) :
        \A i \in 1..Len(runs[r].returned) :
            runs[r].returned[i].score >= config.score_threshold

(***************************************************************************)
(* Claims about apply_improvement (SpecImprove).                           *)
(***************************************************************************)
\* SKILL.md and skill.meta.json are both readable and carry the same version
VersionsAgree(artifact) ==
    /\ ~artifact.md.empty
    /\ ~artifact.meta.empty
    /\ artifact.md.version = artifact.meta.version

\* C1: a call whose proposal has a confidence below auto_apply_threshold
\* leaves the whole artifact as it was (allowed-tools, version, metadata,
\* changelog, and no commit requested), returns False without saying
\* "applied", and when verbose says that the improvement is queued.
C1_BelowThresholdQueued ==
    \A k \in 1..Len(applied) :
        applied[k].proposal.confidence < applied[k].auto_threshold
            => /\ applied[k].after = applied[k].before
               /\ applied[k].returned = FALSE
               /\ "applied" \notin Range(applied[k].printed)
               /\ applied[k].verbose => "queued" \in Range(applied[k].printed)

\* a verbose call, below the threshold, on an artifact the proposal would change
C1_Witness ==
    \E k \in 1..Len(applied) :
        /\ applied[k].proposal.confidence < applied[k].auto_threshold
        /\ applied[k].verbose
        /\ ~applied[k].before.md.empty
        /\ \E t \in Range(applied[k].proposal.missing_tools) :
               t \notin Range(applied[k].before.md.allowed_tools)
        /\ applied[k].after = applied[k].before

\* C2: after apply_improvement returns, on an artifact whose SKILL.md and
\* skill.meta.json agreed on the version, they still agree: both carry the
\* new version or both the old one, also when a write failed.
C2_NoPartialWrite ==
    \A k \in 1..Len(applied) :
        VersionsAgree(applied[k].before) => VersionsAgree(applied[k].after)

\* C20: a mining run never persists a sequence-mined candidate (one without
\* the "source" field of the candidates of prompt analysis) whose derived
\* name equals the name of an artifact that exists when the run starts.
C20_NoCandidateNamedAsArtifact ==
    \A r \in 1..Len(runs) :
        \A i \in 1..Len(runs[r].returned) :
            "source" \notin DOMAIN runs[r].returned[i]
                => runs[r].returned[i].skill_name \notin runs[r].existing

\* a run that started with an artifact whose name the miner derives, from
\* this log, for a pattern that passes the threshold
C20_Witness ==
    \E r \in 1..Len(runs) :
        LET unhindered == NewCandidates(tool_log, user_prompts, config, {})
        IN  \E i \in 1..Len(unhindered) :
                /\ "source" \notin DOMAIN unhindered[i]
                /\ unhindered[i].skill_name \in runs[r].existing

\* C18: in scenario 1 (the sequence git, build, test is the whole sequence
\* of 3 distinct sessions, default configuration) a run that starts without
\* artifacts mines the pattern with frequency 3, scores it at or above the
\* threshold and persists exactly one candidate, named from the first two
\* of its tools.
C18_ScenarioOneCandidate ==
    \A r \in 1..Len(runs) :
        runs[r].existing = {}
            => /\ Len(runs[r].returned) = 1
               /\ runs[r].returned[1].tool_sequence = ScenarioSequence
               /\ runs[r].returned[1].frequency = 3
               /\ runs[r].returned[1].score >= config.score_threshold
               /\ runs[r].returned[1].skill_name
                      = Join(<<IF runs[r].returned[1].domain = NoHint
                               THEN Workflow ELSE Git, Git, ScenarioSequence[2]>>, Dash)
               /\ \E i \in 1..Len(candidates) :
                      /\ candidates[i].candidate_id = runs[r].returned[1].candidate_id
                      /\ candidates[i].skill_name = runs[r].returned[1].skill_name

\* a run on a log whose sessions interleave and carry no domain hint
C18_Witness ==
    /\ Len(runs) >= 1
    /\ runs[1].existing = {}
    /\ Len(runs[1].returned) = 1
    /\ runs[1].returned[1].domain = NoHint
    /\ runs[1].returned[1].score = 63
    /\ tool_log[2].session_id # tool_log[1].session_id

(***************************************************************************)
(* Claims about reading the logs (SpecLoad, SpecAppend).                   *)
(***************************************************************************)
\* C16: a bad line (invalid JSON, JSON that is not an object, an unparseable
\* timestamp) makes the loader skip only that line: when the loader returns,
\* it has loaded every well-formed in-window record of the file, those
\* before and those after a bad line, in file order.
C16_OnlyBadLineSkipped ==
    reader.status = "done" => patterns = InWindow(log_file)

\* C17: when the hook appends while a pass reads the log, the pass ends
\* normally and what it loaded is a prefix of the records of the log: a
\* partly written trailing line is not counted and no record is left out
\* before one that is counted.
C17_InputIsPrefix ==
    reader.status = "done"
        => \E n \in 0..Len(InWindow(log_file)) :
               patterns = SubSeq(InWindow(log_file), 1, n)

(***************************************************************************)
(* Claims about the command lines (SpecCommand).                           *)
(***************************************************************************)
\* C12: a proposal is generated only when the usage count exceeds
\* min_usage_before_improve and at least one trigger holds.
C12_ProposalNeedsUsage ==
    \A k \in 1..Len(commands) :
        ~commands[k].proposal.none
            => /\ commands[k].proposal.analysis.usage_count
                      > commands[k].config.min_usage_before_improve
               /\ \/ commands[k].proposal.analysis.success_rate
                         < commands[k].config.success_rate_trigger
                  \/ commands[k].proposal.missing_tools # <<>>
                  \/ \E i \in 1..Len(commands[k].proposal.analysis.failure_types) :
                         commands[k].proposal.analysis.failure_types[i][2] >= 3

\* "improve.py improve <skill>" without --force, default configuration, on an
\* artifact analysed with usage_count 12 and success_rate 0.5, for which
\* `missing` missing tools were detected
Scenario(c, missing) ==
    /\ c.command = "improve.py improve"
    /\ ~c.force
    /\ c.config = DefaultImprovement
    /\ c.target \in DOMAIN c.before.skills
    /\ ~c.proposal.none
    /\ c.proposal.analysis.usage_count = 12
    /\ c.proposal.analysis.success_rate = 50
    /\ Len(c.proposal.missing_tools) = missing

ArtifactBefore(c) == c.before.skills[c.target]
ArtifactAfter(c) == c.after.skills[c.target]

\* nothing of the directories changed and, unless quiet, "queued" was printed
Queued(c) ==
    /\ c.after = c.before
    /\ "applied" \notin Range(c.printed)
    /\ ~c.quiet => "queued" \in Range(c.printed)

\* C13 as stated: in scenario 4 (two missing tools) the confidence is 0.9 and
\* the improvement is applied: allowed-tools grows by 2, the minor version
\* increments and the changelog gains one entry.
C13_Scenario4Applied ==
    \A k \in 1..Len(commands) :
        Scenario(commands[k], 2)
            => /\ commands[k].proposal.confidence = 90
               /\ Len(ArtifactAfter(commands[k]).md.allowed_tools)
                      = Len(ArtifactBefore(commands[k]).md.allowed_tools) + 2
               /\ ArtifactAfter(commands[k]).md.version
                      = BumpVersion(ArtifactBefore(commands[k]).md.version)
               /\ Len(ArtifactAfter(commands[k]).changelog)
                      = Len(ArtifactBefore(commands[k]).changelog) + 1

\* C13 amended: in scenario 4 the confidence is 0.5 + 0.3 = 0.8, below the
\* threshold 0.9, and the improvement is queued: nothing is changed.
C13_Scenario4Queued ==
    \A k \in 1..Len(commands) :
        Scenario(commands[k], 2)
            => /\ commands[k].proposal.confidence = 80
               /\ Queued(commands[k])

C13_Witness ==
    \E k \in 1..Len(commands) :
        /\ Scenario(commands[k], 2)
        /\ ~commands[k].quiet
        /\ "queued" \in Range(commands[k].printed)

\* C14 as stated: in scenario 3 (no missing tools) a proposal is generated
\* with confidence 0.6 and is queued.
C14_Scenario3Confidence60 ==
    \A k \in 1..Len(commands) :
        Scenario(commands[k], 0)
            => /\ commands[k].proposal.confidence = 60
               /\ Queued(commands[k])

\* C14 amended: in scenario 3 a proposal is generated with confidence 0.5,
\* below the threshold 0.9, and is queued: nothing is changed.
C14_Scenario3Queued ==
    \A k \in 1..Len(commands) :
        Scenario(commands[k], 0)
            => /\ commands[k].proposal.improvements = <<"success_rate_low">>
               /\ commands[k].proposal.confidence = 50
               /\ Queued(commands[k])

C14_Witness ==
    \E k \in 1..Len(commands) :
        /\ Scenario(commands[k], 0)
        /\ commands[k].proposal.confidence = 50
        /\ ~commands[k].quiet
        /\ "queued" \in Range(commands[k].printed)

\* C15: a command that names a target that does not exist reports the
\* failure, exits with a non-zero status and changes no candidate or artifact.
C15_UnknownTargetFails ==
    \A k \in 1..Len(commands) :
        (IF commands[k].command \in {"manage.py approve", "manage.py reject"}
         THEN commands[k].target \notin 1..Len(commands[k].before.candidates)
         ELSE commands[k].target \notin DOMAIN commands[k].before.skills)
            => /\ commands[k].exit_status # 0
               /\ commands[k].after = commands[k].before
               /\ ~commands[k].quiet => commands[k].printed # <<>>

C22_ConfidenceFormula ==
    \A k \in 1..Len(commands) :
        ~commands[k].proposal.none =>
            LET p == commands[k].proposal
                sum == 50 + (IF p.missing_tools # <<>> THEN 30 ELSE 0)
                          + (IF p.analysis.success_rate < 50 THEN 10 ELSE 0)
                          + (IF p.analysis.usage_count
                                    >= 2 * commands[k].config.min_usage_before_improve
                             THEN 10 ELSE 0)
            IN  /\ p.confidence = (IF sum < 100 THEN sum ELSE 100)
                /\ p.confidence >= 50
                /\ p.confidence <= 100

\* a proposal with missing tools and much usage whose success rate is
\* exactly 0.5
C22_Witness ==
    \E k \in 1..Len(commands) :
        /\ ~commands[k].proposal.none
        /\ commands[k].proposal.analysis.success_rate = 50
        /\ commands[k].proposal.analysis.usage_count >= 20
        /\ commands[k].proposal.missing_tools # <<>>
        /\ commands[k].proposal.confidence = 90

\* C23: merging the missing tools is an idempotent union: after an apply
\* that rewrote SKILL.md, allowed-tools holds every tool it held before, in
\* the same order, and every proposed tool, each tool that was not there
\* once; applying the same proposal again leaves allowed-tools as it is.
C23_IdempotentUnion ==
    LET Rewritten(a) == a.returned /\ ~a.after.md.empty /\ a.after.md # a.before.md
    IN  \A k \in 1..Len(applied) :
            LET before == applied[k].before.md.allowed_tools
                after == applied[k].after.md.allowed_tools
                missing == applied[k].proposal.missing_tools
            IN  Rewritten(applied[k])
                => /\ Range(after) = Range(before) \cup Range(missing)
                   /\ SubSeq(after, 1, Len(before)) = before
                   /\ Len(after) = Len(before) + Cardinality(Range(missing) \ Range(before))
                   /\ \A l \in (k + 1)..Len(applied) :
                          (/\ Rewritten(applied[l])
                           /\ applied[l].proposal.missing_tools = missing
                           /\ applied[l].before.md.allowed_tools = after)
                          => applied[l].after.md.allowed_tools = after

\* the same proposal, one of whose tools was already allowed, applied twice
C23_Witness ==
    /\ Len(applied) = 2
    /\ applied[1].returned /\ applied[2].returned
    /\ applied[1].proposal.missing_tools = <<Read, Edit>>
    /\ applied[2].proposal.missing_tools = <<Read, Edit>>
    /\ applied[1].before.md.allowed_tools = <<Bash, Read>>
    /\ applied[1].after.md.allowed_tools = <<Bash, Read, Edit>>
    /\ applied[2].after.md.allowed_tools = <<Bash, Read, Edit>>
    /\ applied[2].after.md.version # applied[2].before.md.version

\* C24: every applied improvement that rewrote SKILL.md bumps the minor
\* number of its three-part version, resets the patch number to 0 and leaves
\* the major number alone; after k such improvements in a row the minor
\* number is the initial one plus k.
C24_MinorBump ==
    LET Rewritten(a) == a.returned /\ ~a.after.md.empty /\ a.after.md # a.before.md
    IN  \A k \in 1..Len(applied) :
            Rewritten(applied[k]) =>
                /\ applied[k].after.md.version
                       = <<applied[k].before.md.version[1],
                           applied[k].before.md.version[2] + 1, 0>>
                /\ (\A j \in 1..k : Rewritten(applied[j]))
                       => /\ applied[k].after.md.version[2]
                                 = applied[1].before.md.version[2] + k
                          /\ applied[k].after.md.version[1]
                                 = applied[1].before.md.version[1]

\* two improvements applied to an artifact whose version had a patch number
C24_Witness ==
    /\ Len(applied) = 2
    /\ applied[1].before.md.version = <<1, 0, 1>>
    /\ applied[1].after.md.version = <<1, 1, 0>>
    /\ applied[2].before.md.version = <<1, 1, 0>>
    /\ applied[2].after.md.version = <<1, 2, 0>>
    /\ applied[1].returned /\ applied[2].returned

\* C29: an applied improvement that rewrote SKILL.md changes only its
\* allowed-tools and its version: everything else of the file, the body
\* included, is exactly as it was before.
C29_OnlyToolsAndVersionChange ==
    \A k \in 1..Len(applied) :
        (/\ applied[k].returned
         /\ ~applied[k].after.md.empty
         /\ ~applied[k].before.md.empty)
        => applied[k].after.md
               = [applied[k].before.md
                      EXCEPT !.allowed_tools = applied[k].after.md.allowed_tools,
                             !.version = applied[k].after.md.version]

\* C25: the missing-tool suggestions of a check are tools used at least 3
\* times in the window that the artifact does not allow, each once and at
\* most 5 of them, and such a tool is left out only when 5 suggested tools
\* were each used at least as often.
C25_SuggestionsAreTopMissing ==
    \A k \in 1..Len(commands) :
        (/\ commands[k].command = "improve.py check"
         /\ commands[k].target \in DOMAIN commands[k].before.skills
         /\ ~commands[k].before.skills[commands[k].target].md.empty)
        => LET allowed == Range(commands[k].before.skills[commands[k].target].md.allowed_tools)
               tools == [i \in 1..Len(tool_log) |-> tool_log[i].tool]
               suggested == IF commands[k].proposal.none THEN <<>>
                            ELSE commands[k].proposal.missing_tools
               eligible == {t \in Range(tools) \ (allowed \cup {NoTool}) :
                               Occurrences(tools, t) >= 3}
           IN  /\ Range(suggested) \subseteq eligible
               /\ Cardinality(Range(suggested)) = Len(suggested)
               /\ Len(suggested) <= 5
               /\ \A t \in eligible \ Range(suggested) :
                      Cardinality({u \in Range(suggested) :
                                      Occurrences(tools, u) >= Occurrences(tools, t)}) = 5

\* C28: approving a candidate never overwrites an existing artifact: when an
\* artifact of the candidate's name exists the approval fails and leaves
\* every artifact and every candidate, its status included, as they were;
\* an approval that succeeds creates the artifact of a name that had none,
\* so of the candidates of one name at most one is approved.
C28_ApprovalNeverOverwrites ==
    /\ \A k \in 1..Len(commands) :
           (/\ commands[k].command = "manage.py approve"
            /\ commands[k].target \in 1..Len(commands[k].before.candidates))
           => LET b == commands[k].before
                  a == commands[k].after
                  name == b.candidates[commands[k].target].skill_name
              IN  /\ \A n \in DOMAIN b.skills :
                         n \in DOMAIN a.skills /\ a.skills[n] = b.skills[n]
                  /\ name \in DOMAIN b.skills
                         => /\ commands[k].exit_status = 1
                            /\ a.candidates = b.candidates
                  /\ name \notin DOMAIN b.skills
                         => /\ commands[k].exit_status = 0
                            /\ name \in DOMAIN a.skills
                            /\ a.candidates[commands[k].target].status = "approved"
    /\ \A i, j \in 1..Len(candidates) :
           (/\ candidates[i].skill_name = candidates[j].skill_name
            /\ candidates[i].status = "approved"
            /\ candidates[j].status = "approved")
           => i = j

\* the approval of a pending candidate whose name an artifact already has
C28_Witness ==
    \E k \in 1..Len(commands) :
        /\ commands[k].command = "manage.py approve"
        /\ commands[k].target = 2
        /\ Len(commands[k].before.candidates) = 2
        /\ commands[k].before.candidates[2].status = "pending"
        /\ commands[k].before.candidates[2].skill_name \in DOMAIN commands[k].before.skills
        /\ commands[k].exit_status = 1
        /\ "skill already exists" \in Range(commands[k].printed)
        /\ skills = commands[k].before.skills

\* C30: as long as no candidate was approved or rejected, the registry
\* holds at most one pending candidate of each skill name, however many
\* mining runs were made over the logs.
C30_OnePendingPerName ==
    (\A i \in 1..Len(candidates) : candidates[i].status = "pending")
    => \A i, j \in 1..Len(candidates) :
           candidates[i].skill_name = candidates[j].skill_name => i = j

====
